---- MODULE Spec2Model ----
(***************************************************************************)
(* Order execution engine: admission pipeline (rate limit, backpressure,   *)
(* idempotency, order creation), BullMQ job queue with retries, the worker *)
(* that drives the order lifecycle, and the WebSocket subscription service *)
(* (connection cap, backfill, Redis PubSub tail).                          *)
(*                                                                         *)
(* Every `await` of the TypeScript source is a suspension point, so every  *)
(* handler is cut into one action per awaited call; what runs between two  *)
(* awaits is one atomic step.                                              *)
(***************************************************************************)
EXTENDS Integers, Sequences, FiniteSets, TLC

\* ------------------------------------------------------------------ bounds

\* Redeliveries of an active job after a worker crash (BullMQ stalled job).
MaxCrashes == 1
\* Failures of redisPub.publish the environment may inject.
MaxPubFails == 1
\* Rate-limit transactions the store may fail.
MaxStoreFails == 1
\* Further calls of enqueueOrder for an order that was enqueued.
MaxReEnqueues == 2
\* Pings counted on one connection.
MaxPings == 3

\* ------------------------------------------------------- program constants

\* config.MAX_RETRIES, also the queue's `attempts` option.
MAX_RETRIES == 3

\* ------------------------------------------------------------------ values

OrderIds == {"o1", "o2", "o3", "o4", "o5"}

\* OrderStatus enum, in lifecycle order.
PENDING == "pending"
ROUTING == "routing"
BUILDING == "building"
SUBMITTED == "submitted"
CONFIRMED == "confirmed"
FAILED == "failed"

RAYDIUM == "raydium"
METEORA == "meteora"

Null == "null"

\* Position of a status on the lifecycle path pending -> ... -> confirmed;
\* failed is terminal and may follow any of them.
StatusRank(s) ==
  CASE s = PENDING -> 0
    [] s = ROUTING -> 1
    [] s = BUILDING -> 2
    [] s = SUBMITTED -> 3
    [] s = CONFIRMED -> 4
    [] s = FAILED -> 5

Terminal == {CONFIRMED, FAILED}

VARIABLES
  orders,   \* orderId -> order row of the orders table (status "absent": no row)
  jobs,     \* orderId -> BullMQ job with jobId = orderId
  wk,       \* orderId -> the processOrder invocation running the job
  bus,      \* orderId -> messages published on order:status:<orderId>
  hist,     \* orderId -> observations of the run (attempts started, swaps executed, ...)
  budget,   \* faults the environment may still inject
  conns,    \* connection id -> WebSocket connection handled by WebSocketService
  connCount,\* orderId -> Redis counter ws:connections:<orderId>:<clientIp>
  channels, \* channels redisSub is subscribed to (by orderId)
  reqs,     \* request id -> POST /api/orders/execute request in the pipeline
  idem,     \* Idempotency-Key -> record stored under idempotency:<key>
  rl,       \* client IP -> sorted set ratelimit:<ip>, as timestamp -> entries
  passed,   \* client IP -> timestamp -> requests the rate limiter let pass
  now,      \* Date.now(), in ticks
  arrivals, \* requests received so far
  backlog,  \* waiting jobs of the queue that belong to other orders
  down      \* the process: its shutdown handler and what shutdown closes

vars ==
  <<orders, jobs, wk, bus, hist, budget, conns, connCount, channels,
    reqs, idem, rl, passed, now, arrivals, backlog, down>>

\* The parts of the state the worker, resp. the subscription service, never writes.
streamVars == <<connCount, channels>>
workerVars == <<orders, jobs, wk, bus, hist, budget>>
admitVars == <<reqs, idem, rl, passed, now, arrivals, backlog>>

ConnIds == {"c1", "c2", "c3", "c4"}

\* The running process: no signal received, everything open.
Running ==
  [pc |-> "running", http |-> "open", worker |-> "running", queue |-> "open",
   db |-> "open", redis |-> "open"]

\* ------------------------------------------------------------ requests

\* OrderType.MARKET, the one type the schema knows.
MARKET == "market"

\* Token symbols, as sequences of characters.
SOL == <<"S", "O", "L">>
USDC == <<"U", "S", "D", "C">>

\* A market order request selling SOL for USDC (IOrderRequest): amount in
\* whole tokens, slippage in percent.
Body(amount, slippage) ==
  [type |-> MARKET, tokenIn |-> SOL, tokenOut |-> USDC,
   amount |-> amount, slippage |-> slippage]

\* Request bodies of the admission specifications.
Bodies == {Body(1, 1), Body(2, 1)}

\* A body the schema rejects: amount must be greater than 0.
BadBody == Body(0, 1)
AnyBody == Bodies \cup {BadBody}

\* Largest slippage the schema accepts, in percent (0.5).
MaxSlippagePct == 50


\* Longest token symbol the schema accepts.
MaxTokenLen == 64

\* executeOrderSchema.safeParse: type is market, tokenIn and tokenOut have 1
\* to 64 characters, amount > 0 and slippage within [0, 0.5]. The schema does
\* not compare tokenIn with tokenOut.
validateOrderRequest(body) ==
  /\ body.type = MARKET
  /\ Len(body.tokenIn) >= 1 /\ Len(body.tokenIn) <= MaxTokenLen
  /\ Len(body.tokenOut) >= 1 /\ Len(body.tokenOut) <= MaxTokenLen
  /\ body.amount > 0
  /\ body.slippage >= 0 /\ body.slippage <= MaxSlippagePct

\* Token symbols a client may send: none, two symbols, and symbols of 64
\* and 65 characters.
TokenCases ==
  {<<>>, SOL, USDC, [i \in 1..MaxTokenLen |-> "A"], [i \in 1..(MaxTokenLen + 1) |-> "A"]}

\* Bodies a client may send: a known and an unknown type, any tokens, amounts
\* of 0 and 1, and slippages of 0%, 50% and 51%.
ValidationBodies ==
  [type : {MARKET, "limit"}, tokenIn : TokenCases, tokenOut : TokenCases,
   amount : {0, 1}, slippage : {0, MaxSlippagePct, MaxSlippagePct + 1}]

\* The body of the order the worker specifications start with.
B1 == Body(1, 1)

\* ---------------------------------------------------- order repository

NoRow ==
  [status |-> "absent", amountIn |-> 0, slippage |-> 0, amountOut |-> Null,
   dexUsed |-> Null, txHash |-> Null, failureReason |-> Null,
   raydiumQuote |-> Null, meteoraQuote |-> Null, logs |-> <<>>]

\* An IOrderLog entry: the stage and the stage's optional fields.
LogEntry(stage, txHash, reason, attempt, selected) ==
  [stage |-> stage, txHash |-> txHash, reason |-> reason, attempt |-> attempt,
   selected |-> selected]

\* INSERT INTO orders ... status = pending, logs = [initialLog]
createOrder(request) ==
  [NoRow EXCEPT !.status = PENDING, !.amountIn = request.amount,
                !.slippage = request.slippage,
                !.logs = <<LogEntry(PENDING, Null, Null, 0, Null)>>]

\* A status write that appends no log entry.
updateOrderStatusNoLog(row, status, txHash) ==
  IF row.status = "absent" THEN row ELSE [row EXCEPT !.status = status]

\* UPDATE orders SET status = $2, logs = logs || $3 WHERE id = $1
\* (no condition on the current status; a missing row is left missing).
updateOrderStatus(row, status, txHash) ==
  IF row.status = "absent" THEN row
  ELSE [row EXCEPT !.status = status,
                   !.logs = Append(@, LogEntry(status, txHash, Null, 0, Null))]

\* UPDATE orders SET status = routing, raydium_quote, meteora_quote, dex_used, logs
updateOrderRouting(row, raydiumQuote, meteoraQuote, selectedDex) ==
  IF row.status = "absent" THEN row
  ELSE [row EXCEPT !.status = ROUTING,
                   !.raydiumQuote = raydiumQuote,
                   !.meteoraQuote = meteoraQuote,
                   !.dexUsed = selectedDex,
                   !.logs = Append(@, LogEntry(ROUTING, Null, Null, 0, selectedDex))]

\* UPDATE orders SET status = confirmed, tx_hash, amount_out, logs
updateOrderConfirmed(row, txHash, amountOut) ==
  IF row.status = "absent" THEN row
  ELSE [row EXCEPT !.status = CONFIRMED,
                   !.txHash = txHash,
                   !.amountOut = amountOut,
                   !.logs = Append(@, LogEntry(CONFIRMED, txHash, Null, 0, Null))]

\* UPDATE orders SET status = failed, failure_reason, logs
updateOrderFailed(row, failureReason, attempt) ==
  IF row.status = "absent" THEN row
  ELSE [row EXCEPT !.status = FAILED,
                   !.failureReason = failureReason,
                   !.logs = Append(@, LogEntry(FAILED, Null, failureReason, attempt, Null))]

\* ------------------------------------------------------------ DEX router

\* Quote pairs <<raydium price, meteora price>> the venues may return.
QuoteCases == {<<100, 100>>}

\* Fees in thousandths: Raydium 0.003, Meteora 0.002.
RaydiumFee == 3
MeteoraFee == 2

\* Effective price = price * (1 - fee); Raydium wins ties (gte).
selectBestDex(raydium, meteora) ==
  IF raydium * (1000 - RaydiumFee) >= meteora * (1000 - MeteoraFee)
  THEN RAYDIUM ELSE METEORA

\* Executed prices a venue may report for an expected price.
ExecutedPrices(expected) == {expected, expected - 5}

Abs(x) == IF x < 0 THEN -x ELSE x

\* The tolerance test for prices below the expected price only.
checkSlippageOneSided(expected, executed, slippage) ==
  (expected - executed) * 100 <= slippage * expected

\* The tolerance test with the boundary left out.
checkSlippageStrict(expected, executed, slippage) ==
  Abs(expected - executed) * 100 < slippage * expected

\* passed iff |expected - executed| / expected <= slippage (slippage in percent).
checkSlippage(expected, executed, slippage) ==
  Abs(expected - executed) * 100 <= slippage * expected

\* ------------------------------------------------------------- the queue

\* The queue's jobs of one orderId: the job whose id is the orderId, and the
\* number of further jobs that carry the orderId under another job id.
NoJob == [state |-> "none", attemptsMade |-> 0, others |-> 0]

\* orderQueue.add with an auto-generated job id: every call adds a job.
QueueAddFreshId(job) ==
  IF job.state = "none" THEN [job EXCEPT !.state = "waiting"]
  ELSE [job EXCEPT !.others = @ + 1]

\* orderQueue.add(name, payload, {jobId: payload.orderId}): BullMQ adds no
\* job when a job with this id exists in the queue.
QueueAdd(job) ==
  IF job.state = "none" THEN [job EXCEPT !.state = "waiting"] ELSE job

\* The idle worker slot of an order: no processOrder invocation is running.
Idle ==
  [pc |-> "idle", err |-> Null, raydium |-> 0, meteora |-> 0, dex |-> Null,
   tx |-> Null, executed |-> 0]

NoHist ==
  [runs |-> 0, swaps |-> 0, confirms |-> 0, venueFails |-> 0, crashes |-> 0,
   lastErr |-> Null, enqueues |-> 0]

\* The last-attempt test one attempt early.
FinalAttemptEarly(job) == job.attemptsMade + 2 >= MAX_RETRIES

\* The last-attempt test off by one: the attempt after the last.
FinalAttemptLate(job) == job.attemptsMade + 1 > MAX_RETRIES

\* The last-attempt test that never holds.
FinalAttemptNever(job) == job.attemptsMade < 0

\* job.attemptsMade + 1 >= config.MAX_RETRIES
FinalAttempt(job) == job.attemptsMade + 1 >= MAX_RETRIES

\* An error thrown inside the try block lands in the catch block, which
\* persists the failure on the final attempt and announces a retry otherwise.
Throw(w, job, err) ==
  [w EXCEPT !.err = err,
            !.pc = IF FinalAttempt(job) THEN "updFailed" ELSE "pubRetry"]

\* The awaited publishStatus calls of the try block and the pc that follows.
TryPubs == {"pubRouting1", "pubRouting2", "pubBuilding", "pubSubmitted", "pubConfirmed"}
CatchPubs == {"pubFailed", "pubRetry"}

AfterPub(pc) ==
  CASE pc = "pubRouting1" -> "getQuotes"
    [] pc = "pubRouting2" -> "updBuilding"
    [] pc = "pubBuilding" -> "executeSwap"
    [] pc = "pubSubmitted" -> "updConfirmed"
    [] pc = "pubConfirmed" -> "return"
    [] pc \in CatchPubs -> "rethrow"

\* The payload publishStatus sends at each publish of processOrder.
PubMsg(pc, w) ==
  CASE pc \in {"pubRouting1", "pubRouting2"} -> [status |-> ROUTING, error |-> Null]
    [] pc = "pubBuilding" -> [status |-> BUILDING, error |-> Null]
    [] pc = "pubSubmitted" -> [status |-> SUBMITTED, error |-> Null]
    [] pc = "pubConfirmed" -> [status |-> CONFIRMED, error |-> Null]
    [] pc = "pubFailed" -> [status |-> FAILED, error |-> w.err]
    [] pc = "pubRetry" -> [status |-> PENDING, error |-> w.err]

\* publishStatus: the payload carries the orderId and goes to the order's
\* channel.
publishStatus(o, pc, w) ==
  [orderId |-> o, status |-> PubMsg(pc, w).status, error |-> PubMsg(pc, w).error]

\* A handler without the channel test: it writes every message that the
\* subscriber connection receives.
DeliverUnfiltered(cs, o, msg) ==
  [c \in ConnIds |->
     IF o \in channels /\ cs[c].handler /\ cs[c].open
     THEN [cs[c] EXCEPT !.received = Append(@, msg)]
     ELSE cs[c]]

\* A delivery that writes the newest message ahead of the earlier ones.
DeliverFront(cs, o, msg) ==
  [c \in ConnIds |->
     IF o \in channels /\ cs[c].handler /\ cs[c].order = o /\ cs[c].open
     THEN [cs[c] EXCEPT !.received = <<msg>> \o @]
     ELSE cs[c]]

\* Redis delivers a published message to every message handler attached for
\* the channel; the handler writes a status_update to an open socket.
Deliver(cs, o, msg) ==
  [c \in ConnIds |->
     IF o \in channels /\ cs[c].handler /\ cs[c].order = o /\ cs[c].open
     THEN [cs[c] EXCEPT !.received = Append(@, msg)]
     ELSE cs[c]]

\* --------------------------------------------------- worker: processOrder

\* BullMQ hands a waiting job to the worker, which calls processOrder; a
\* worker that is closing fetches no further job.
Lease(o) ==
  /\ jobs[o].state = "waiting"
  /\ down.worker = "running"
  /\ jobs' = [jobs EXCEPT ![o].state = "active"]
  /\ wk' = [wk EXCEPT ![o] = [Idle EXCEPT !.pc = "updRouting1"]]
  /\ hist' = [hist EXCEPT ![o].runs = @ + 1]
  /\ UNCHANGED <<down, orders, bus, budget, conns, streamVars, admitVars>>

\* The awaited repository writes of the try block.
Persist(o) ==
  /\ wk[o].pc \in {"updRouting1", "updRouting2", "updBuilding", "updSubmitted", "updConfirmed"}
  /\ LET w == wk[o]
         row == orders[o]
     IN CASE w.pc = "updRouting1" ->
               /\ orders' = [orders EXCEPT ![o] = updateOrderStatus(row, ROUTING, Null)]
               /\ wk' = [wk EXCEPT ![o].pc = "pubRouting1"]
               /\ hist' = hist
          [] w.pc = "updRouting2" ->
               /\ orders' = [orders EXCEPT ![o] =
                                updateOrderRouting(row, w.raydium, w.meteora, w.dex)]
               /\ wk' = [wk EXCEPT ![o].pc = "pubRouting2"]
               /\ hist' = hist
          [] w.pc = "updBuilding" ->
               /\ orders' = [orders EXCEPT ![o] = updateOrderStatus(row, BUILDING, Null)]
               /\ wk' = [wk EXCEPT ![o].pc = "pubBuilding"]
               /\ hist' = hist
          [] w.pc = "updSubmitted" ->
               /\ orders' = [orders EXCEPT ![o] = updateOrderStatus(row, SUBMITTED, w.tx)]
               /\ wk' = [wk EXCEPT ![o].pc = "pubSubmitted"]
               /\ hist' = hist
          [] w.pc = "updConfirmed" ->
               /\ orders' = [orders EXCEPT ![o] =
                                updateOrderConfirmed(row, w.tx, row.amountIn * w.executed)]
               /\ wk' = [wk EXCEPT ![o].pc = "pubConfirmed"]
               /\ hist' = [hist EXCEPT ![o].confirms = @ + 1]
  /\ UNCHANGED <<down, jobs, bus, budget, conns, streamVars, admitVars>>

\* publishStatus resolves: the message is on the channel.
PublishOk(o) ==
  /\ wk[o].pc \in TryPubs \cup CatchPubs
  /\ LET msg == publishStatus(o, wk[o].pc, wk[o])
     IN /\ bus' = [bus EXCEPT ![o] = Append(@, msg)]
        /\ conns' = Deliver(conns, o, msg)
  /\ wk' = [wk EXCEPT ![o].pc = AfterPub(@)]
  /\ UNCHANGED <<down, orders, jobs, hist, budget, streamVars, admitVars>>

\* redisPub.publish rejects. In the try block the error goes to the catch
\* block; in the catch block it replaces the error being re-thrown.
PublishFail(o) ==
  /\ wk[o].pc \in TryPubs \cup CatchPubs
  /\ budget.pub > 0
  /\ budget' = [budget EXCEPT !.pub = @ - 1]
  /\ wk' = [wk EXCEPT ![o] =
               IF @.pc \in TryPubs THEN Throw(@, jobs[o], "publish_error")
               ELSE [@ EXCEPT !.pc = "rethrow", !.err = "publish_error"]]
  /\ UNCHANGED <<down, orders, jobs, bus, hist, conns, streamVars, admitVars>>

\* dexRouter.getQuotes resolves with both quotes; selectBestDex is synchronous.
GetQuotesOk(o) ==
  /\ wk[o].pc = "getQuotes"
  /\ \E q \in QuoteCases :
       wk' = [wk EXCEPT ![o].raydium = q[1], ![o].meteora = q[2],
                        ![o].dex = selectBestDex(q[1], q[2]),
                        ![o].pc = "updRouting2"]
  /\ UNCHANGED <<down, orders, jobs, bus, hist, budget, conns, streamVars, admitVars>>

\* A venue's getQuote rejects: Promise.all rejects, processOrder catches.
GetQuotesFail(o) ==
  /\ wk[o].pc = "getQuotes"
  /\ wk' = [wk EXCEPT ![o] = Throw(@, jobs[o], "quote_error")]
  /\ hist' = [hist EXCEPT ![o].venueFails = @ + 1]
  /\ UNCHANGED <<down, orders, jobs, bus, budget, conns, streamVars, admitVars>>

\* One venue's getQuote resolves with its quote and the other's rejects:
\* Promise.all rejects with that error and the quote that arrived is dropped.
GetQuotesPartial(o) ==
  /\ wk[o].pc = "getQuotes"
  /\ \E q \in QuoteCases, answered \in {RAYDIUM, METEORA} :
       wk' = [wk EXCEPT ![o] =
                Throw([@ EXCEPT !.raydium = IF answered = RAYDIUM THEN q[1] ELSE 0,
                                !.meteora = IF answered = METEORA THEN q[2] ELSE 0],
                      jobs[o], "quote_error")]
  /\ hist' = [hist EXCEPT ![o].venueFails = @ + 1]
  /\ UNCHANGED <<down, orders, jobs, bus, budget, conns, streamVars, admitVars>>

\* The venue's price for the DEX selected at routing.
ExpectedPrice(w) == IF w.dex = RAYDIUM THEN w.raydium ELSE w.meteora

\* dexRouter.executeSwap resolves; checkSlippage runs in the same step and
\* throws "Slippage exceeded" when the executed price is out of tolerance.
ExecuteSwapOk(o) ==
  /\ wk[o].pc = "executeSwap"
  /\ \E executed \in ExecutedPrices(ExpectedPrice(wk[o])) :
       LET tx == hist[o].swaps + 1
           w == [wk[o] EXCEPT !.tx = tx, !.executed = executed]
       IN /\ hist' = [hist EXCEPT ![o].swaps = tx]
          /\ wk' = [wk EXCEPT ![o] =
                       IF checkSlippage(ExpectedPrice(w), executed, orders[o].slippage)
                       THEN [w EXCEPT !.pc = "updSubmitted"]
                       ELSE Throw(w, jobs[o], "slippage")]
  /\ UNCHANGED <<down, orders, jobs, bus, budget, conns, streamVars, admitVars>>

\* dexRouter.executeSwap rejects (venue timeout or transport error).
ExecuteSwapFail(o) ==
  /\ wk[o].pc = "executeSwap"
  /\ wk' = [wk EXCEPT ![o] = Throw(@, jobs[o], "swap_error")]
  /\ hist' = [hist EXCEPT ![o].venueFails = @ + 1]
  /\ UNCHANGED <<down, orders, jobs, bus, budget, conns, streamVars, admitVars>>

\* Quote pairs for the router: equal prices, a tie of the effective prices
\* (998 * 0.997 = 997 * 0.998), and one venue clearly ahead of the other.
RouterQuotes == {<<997, 997>>, <<998, 997>>, <<1000, 997>>, <<997, 1000>>}

\* Executed prices around an expected price: on it, and 1.0% and 1.1% of
\* 1000 below and above it.
RouterExecuted(expected) ==
  {expected - 11, expected - 10, expected, expected + 10, expected + 11}

\* Bodies whose slippage tolerance is 0 and 1 percent.
RouterBodies == {Body(1, 0), Body(1, 1)}

\* dexRouter.getQuotes resolves with a pair of RouterQuotes; selectBestDex.
GetQuotesAny(o) ==
  /\ wk[o].pc = "getQuotes"
  /\ \E q \in RouterQuotes :
       wk' = [wk EXCEPT ![o].raydium = q[1], ![o].meteora = q[2],
                        ![o].dex = selectBestDex(q[1], q[2]),
                        ![o].pc = "updRouting2"]
  /\ UNCHANGED <<down, orders, jobs, bus, hist, budget, conns, streamVars, admitVars>>

\* dexRouter.executeSwap resolves with a price of RouterExecuted; checkSlippage.
ExecuteSwapAny(o) ==
  /\ wk[o].pc = "executeSwap"
  /\ \E executed \in RouterExecuted(ExpectedPrice(wk[o])) :
       LET tx == hist[o].swaps + 1
           w == [wk[o] EXCEPT !.tx = tx, !.executed = executed]
       IN /\ hist' = [hist EXCEPT ![o].swaps = tx]
          /\ wk' = [wk EXCEPT ![o] =
                       IF checkSlippage(ExpectedPrice(w), executed, orders[o].slippage)
                       THEN [w EXCEPT !.pc = "updSubmitted"]
                       ELSE Throw(w, jobs[o], "slippage")]
  /\ UNCHANGED <<down, orders, jobs, bus, budget, conns, streamVars, admitVars>>

\* Catch block, final attempt: updateOrderFailed(orderId, error.message, attempt, max).
PersistFailed(o) ==
  /\ wk[o].pc = "updFailed"
  /\ orders' = [orders EXCEPT ![o] =
                   updateOrderFailed(@, wk[o].err, jobs[o].attemptsMade + 1)]
  /\ wk' = [wk EXCEPT ![o].pc = "pubFailed"]
  /\ UNCHANGED <<down, jobs, bus, hist, budget, conns, streamVars, admitVars>>

\* processOrder returned: BullMQ moves the job to completed.
JobCompleted(o) ==
  /\ wk[o].pc = "return"
  /\ jobs' = [jobs EXCEPT ![o].state = "completed"]
  /\ wk' = [wk EXCEPT ![o] = Idle]
  /\ hist' = [hist EXCEPT ![o].lastErr = Null]
  /\ UNCHANGED <<down, orders, bus, budget, conns, streamVars, admitVars>>

\* processOrder re-threw: BullMQ counts the attempt and, while attempts are
\* left (attempts: MAX_RETRIES), schedules the retry with exponential backoff.
JobFailed(o) ==
  /\ wk[o].pc = "rethrow"
  /\ jobs' = [jobs EXCEPT ![o].attemptsMade = @ + 1,
                          ![o].state = IF jobs[o].attemptsMade + 1 < MAX_RETRIES
                                       THEN "delayed" ELSE "failed"]
  /\ hist' = [hist EXCEPT ![o].lastErr = wk[o].err]
  /\ wk' = [wk EXCEPT ![o] = Idle]
  /\ UNCHANGED <<down, orders, bus, budget, conns, streamVars, admitVars>>

\* The backoff delay of a retry elapsed: the job is waiting again.
Promote(o) ==
  /\ jobs[o].state = "delayed"
  /\ jobs' = [jobs EXCEPT ![o].state = "waiting"]
  /\ UNCHANGED <<down, orders, wk, bus, hist, budget, conns, streamVars, admitVars>>

\* The worker process dies while the job is active: the lock expires and
\* BullMQ's stalled-job check puts the job back to waiting (at-least-once).
Crash(o) ==
  /\ jobs[o].state = "active"
  /\ budget.crash > 0
  /\ budget' = [budget EXCEPT !.crash = @ - 1]
  /\ jobs' = [jobs EXCEPT ![o].state = "waiting"]
  /\ wk' = [wk EXCEPT ![o] = Idle]
  /\ hist' = [hist EXCEPT ![o].crashes = @ + 1]
  /\ UNCHANGED <<down, orders, bus, conns, streamVars, admitVars>>

\* SIGTERM or SIGINT: the shutdown handler starts with app.close().
Signal ==
  /\ down.pc = "running"
  /\ down' = [down EXCEPT !.pc = "appClose"]
  /\ UNCHANGED <<workerVars, conns, streamVars, admitVars>>

\* await app.close() resolved: the HTTP server takes no more requests. Then
\* closeWorker is called: worker.close() stops fetching jobs at once.
AppClose ==
  /\ down.pc = "appClose"
  /\ down' = [down EXCEPT !.pc = "closeWorker", !.http = "closed", !.worker = "closing"]
  /\ UNCHANGED <<workerVars, conns, streamVars, admitVars>>

\* await closeWorker resolved: worker.close() waited for the active jobs.
CloseWorker ==
  /\ down.pc = "closeWorker"
  /\ \A o \in OrderIds : jobs[o].state # "active"
  /\ down' = [down EXCEPT !.pc = "closeQueue", !.worker = "closed"]
  /\ UNCHANGED <<workerVars, conns, streamVars, admitVars>>

\* await closeQueue(): orderQueue.close().
CloseQueue ==
  /\ down.pc = "closeQueue"
  /\ down' = [down EXCEPT !.pc = "disconnectDatabase", !.queue = "closed"]
  /\ UNCHANGED <<workerVars, conns, streamVars, admitVars>>

\* await disconnectDatabase(): pool.end().
DisconnectDatabase ==
  /\ down.pc = "disconnectDatabase"
  /\ down' = [down EXCEPT !.pc = "disconnectRedis", !.db = "closed"]
  /\ UNCHANGED <<workerVars, conns, streamVars, admitVars>>

\* await disconnectRedis(): redis, redisSub and redisPub quit; process.exit.
DisconnectRedis ==
  /\ down.pc = "disconnectRedis"
  /\ down' = [down EXCEPT !.pc = "exit", !.redis = "closed"]
  /\ UNCHANGED <<workerVars, conns, streamVars, admitVars>>

\* enqueueOrder is called again with the payload of an order that was
\* enqueued before.
EnqueueAgain(o) ==
  /\ orders[o].status # "absent"
  /\ hist[o].enqueues < MaxReEnqueues
  /\ jobs' = [jobs EXCEPT ![o] = QueueAdd(@)]
  /\ hist' = [hist EXCEPT ![o].enqueues = @ + 1]
  /\ UNCHANGED <<down, orders, wk, bus, budget, conns, streamVars, admitVars>>

\* ------------------------------------------- WebSocketService (stream)

MAX_CONNECTIONS_PER_ORDER_IP == 3

\* No backfill message was sent on the connection.
NoBackfill == [status |-> Null, logs |-> <<>>]

NoConn ==
  [pc |-> "none", order |-> Null, open |-> FALSE, handler |-> FALSE,
   sub |-> FALSE, backfill |-> NoBackfill, received |-> <<>>, closeCode |-> 0,
   pings |-> 0, pongTimeout |-> FALSE, missed |-> 0]

\* The route handler accepted the upgrade and calls handleConnection.
Connect(c, o) ==
  /\ conns[c].pc = "none"
  /\ conns' = [conns EXCEPT ![c] = [NoConn EXCEPT !.pc = "check", !.order = o, !.open = TRUE]]
  /\ UNCHANGED <<down, workerVars, streamVars, admitVars>>

\* !count || parseInt(count) < MAX_CONNECTIONS_PER_ORDER_IP
checkConnectionLimit(count) == count < MAX_CONNECTIONS_PER_ORDER_IP

\* await checkConnectionLimit: redis.get of the counter; over the limit the
\* socket is closed with 4029 and handleConnection returns.
ConnCheck(c) ==
  /\ conns[c].pc = "check"
  /\ conns' = [conns EXCEPT ![c] =
                 IF checkConnectionLimit(connCount[conns[c].order])
                 THEN [@ EXCEPT !.pc = "register"]
                 ELSE [@ EXCEPT !.pc = "rejected", !.open = FALSE, !.closeCode = 4029]]
  /\ UNCHANGED <<down, workerVars, streamVars, admitVars>>

\* await registerConnection: redis.incr (and expire), then the socket joins
\* this.connections.
ConnRegister(c) ==
  /\ conns[c].pc = "register"
  /\ connCount' = [connCount EXCEPT ![conns[c].order] = @ + 1]
  /\ conns' = [conns EXCEPT ![c].pc = "backfill"]
  /\ UNCHANGED <<down, admitVars, workerVars, channels>>

\* await sendBackfill: getOrderById, then the backfill message (status and
\* logs of the row as read) is sent if the socket is open. A missing row
\* closes the socket with 4004; handleConnection goes on either way.
ConnBackfill(c) ==
  /\ conns[c].pc = "backfill"
  /\ LET row == orders[conns[c].order]
         cn == conns[c]
     IN conns' = [conns EXCEPT ![c] =
          IF row.status = "absent"
          THEN [cn EXCEPT !.pc = "subscribe", !.open = FALSE,
                          !.closeCode = IF cn.open THEN 4004 ELSE cn.closeCode]
          ELSE [cn EXCEPT !.pc = "subscribe",
                          !.backfill = IF cn.open
                                       THEN [status |-> row.status, logs |-> row.logs]
                                       ELSE cn.backfill]]
  /\ UNCHANGED <<down, workerVars, streamVars, admitVars>>

\* subscribeToUpdates up to its await: this.subscriptions.set(socket, channel)
\* and redisSub.subscribe(channel), which Redis carries out.
ConnSubscribe(c) ==
  /\ conns[c].pc = "subscribe"
  /\ conns' = [conns EXCEPT ![c].pc = "attach", ![c].sub = TRUE]
  /\ channels' = channels \cup {conns[c].order}
  /\ UNCHANGED <<down, admitVars, workerVars, connCount>>

\* subscribeToUpdates after its await: redisSub.on('message', handler); then
\* handleConnection starts the heartbeat and registers the close listener.
\* Redis replies in the order of the commands, so a handleClose that awaits
\* an unsubscribe of the channel issued before this subscribe goes on first.
ConnAttach(c) ==
  /\ conns[c].pc = "attach"
  /\ \A d \in ConnIds : ~(conns[d].pc = "unsubscribe" /\ conns[d].order = conns[c].order)
  /\ conns' = [conns EXCEPT ![c].pc = "live", ![c].handler = TRUE]
  /\ UNCHANGED <<down, workerVars, streamVars, admitVars>>

\* The client disconnects from a connection whose close listener is
\* registered: handleClose runs up to its first await. It removes the message
\* handler and, when no other socket is subscribed to the channel, calls
\* redisSub.unsubscribe. redisSub is one Redis connection: Redis carries out
\* its subscribe and unsubscribe commands in the order they were issued.
ClientClose(c) ==
  /\ conns[c].pc = "live"
  /\ conns[c].open
  /\ LET channel == conns[c].order
         otherConnections == Cardinality({d \in ConnIds : conns[d].sub /\ conns[d].order = channel})
     IN /\ conns' = [conns EXCEPT ![c].open = FALSE, ![c].handler = FALSE,
                               ![c].pongTimeout = FALSE,
                               ![c].pc = IF otherConnections <= 1 THEN "unsubscribe"
                                         ELSE "unregister",
                               ![c].sub = IF otherConnections <= 1 THEN @ ELSE FALSE]
        /\ channels' = IF otherConnections <= 1 THEN channels \ {channel} ELSE channels
  /\ UNCHANGED <<down, workerVars, connCount, admitVars>>

\* The client disconnects while handleConnection is still awaiting a step of
\* its setup: the socket's close event is emitted before socket.on('close')
\* is registered, so handleClose never runs for this socket. The setup goes on.
ClientCloseEarly(c) ==
  /\ conns[c].pc \in {"check", "register", "backfill", "subscribe", "attach"}
  /\ conns[c].open
  /\ conns' = [conns EXCEPT ![c].open = FALSE]
  /\ UNCHANGED <<down, workerVars, streamVars, admitVars>>

\* startHeartbeat, the interval callback: every PING_INTERVAL an open socket
\* is pinged and a timer of PONG_TIMEOUT is set. PONG_TIMEOUT is shorter than
\* PING_INTERVAL, so the timer of the ping before is gone by then. The
\* interval runs as long as the socket lives; pings are counted up to MaxPings.
Ping(c) ==
  /\ conns[c].pc = "live"
  /\ conns[c].open
  /\ ~conns[c].pongTimeout
  /\ conns' = [conns EXCEPT ![c].pings = IF @ < MaxPings THEN @ + 1 ELSE @,
                            ![c].pongTimeout = TRUE]
  /\ UNCHANGED <<down, workerVars, streamVars, admitVars>>

\* handlePong: the client answered the ping in time, the timer is cleared.
Pong(c) ==
  /\ conns[c].pc = "live"
  /\ conns[c].open
  /\ conns[c].pongTimeout
  /\ conns' = [conns EXCEPT ![c].pongTimeout = FALSE, ![c].missed = 0]
  /\ UNCHANGED <<down, workerVars, streamVars, admitVars>>

\* The pong timer fires: socket.terminate(). The socket's close event runs
\* handleClose up to its first await, as for a client's disconnect.
PongTimeout(c) ==
  /\ conns[c].pc = "live"
  /\ conns[c].open
  /\ conns[c].pongTimeout
  /\ LET channel == conns[c].order
         otherConnections == Cardinality({d \in ConnIds : conns[d].sub /\ conns[d].order = channel})
     IN /\ conns' = [conns EXCEPT ![c].open = FALSE, ![c].handler = FALSE,
                               ![c].pongTimeout = FALSE,
                               ![c].missed = @ + 1,
                               ![c].closeCode = 1006,
                               ![c].pc = IF otherConnections <= 1 THEN "unsubscribe"
                                         ELSE "unregister",
                               ![c].sub = IF otherConnections <= 1 THEN @ ELSE FALSE]
        /\ channels' = IF otherConnections <= 1 THEN channels \ {channel} ELSE channels
  /\ UNCHANGED <<down, workerVars, connCount, admitVars>>

\* handleClose: redisSub.unsubscribe(channel) resolved; subscriptions.delete.
CloseUnsubscribe(c) ==
  /\ conns[c].pc = "unsubscribe"
  /\ conns' = [conns EXCEPT ![c].pc = "unregister", ![c].sub = FALSE]
  /\ UNCHANGED <<down, workerVars, streamVars, admitVars>>

\* handleClose: unregisterConnection, redis.decr of the counter.
CloseUnregister(c) ==
  /\ conns[c].pc = "unregister"
  /\ connCount' = [connCount EXCEPT ![conns[c].order] = @ - 1]
  /\ conns' = [conns EXCEPT ![c].pc = "closed"]
  /\ UNCHANGED <<down, admitVars, workerVars, channels>>

ConnStep(c) ==
  \/ ConnCheck(c)
  \/ ConnRegister(c)
  \/ ConnBackfill(c)
  \/ ConnSubscribe(c)
  \/ ConnAttach(c)
  \/ ClientClose(c)
  \/ CloseUnsubscribe(c)
  \/ CloseUnregister(c)

\* ------------------------------------------------- admission pipeline

\* Sliding window of the rate limiter and the horizon of the clock, in ticks.
WindowTicks == 2
MaxTime == 3
\* Requests the clients send.
MaxArrivals == 3
\* config.RATE_LIMIT (default 30), set low.
RATE_LIMIT == 2
\* QUEUE_DEPTH_THRESHOLD of the backpressure middleware.
QUEUE_DEPTH_THRESHOLD == 100

Ips == {"ip1", "ip2"}
Keys == {"K1"}
NoKey == "none"
Times == 0..MaxTime

\* Request ids in the order the requests arrive; the order a request creates
\* gets the request's id (uuidv4 is fresh for every submission).
ReqOrder == <<"o1", "o2", "o3", "o4", "o5">>
ReqIndex(r) == CHOOSE i \in 1..Len(ReqOrder) : ReqOrder[i] = r

NoReq ==
  [pc |-> "none", key |-> NoKey, body |-> B1, ip |-> "ip1", code |-> 0,
   orderId |-> Null, idempotencyKey |-> NoKey, count |-> 0, failOpen |-> FALSE,
   depth |-> 0, depthUnread |-> FALSE, idemUnread |-> FALSE, retryAfter |-> 0]

\* A fingerprint that does not depend on the body.
hashBodyBlind(body) == <<"sha256", 0, 0>>

\* sha256 of JSON.stringify(body): equal bodies, equal fingerprints, and no
\* two bodies of the model collide.
hashBody(body) ==
  <<"sha256", body.type, body.tokenIn, body.tokenOut, body.amount, body.slippage>>

\* No record is stored under the key.
NoRecord == [orderId |-> Null, bodyHash |-> <<>>]

InitAdmission(depths) ==
  /\ reqs = [r \in OrderIds |-> NoReq]
  /\ idem = [k \in Keys |-> NoRecord]
  /\ rl = [ip \in Ips |-> [t \in Times |-> 0]]
  /\ passed = [ip \in Ips |-> [t \in Times |-> [counted |-> 0, failOpen |-> 0]]]
  /\ now = 0
  /\ arrivals = 0
  /\ backlog \in depths

\* A client sends POST /api/orders/execute.
Submit(r, key, body, ip) ==
  /\ reqs[r].pc = "none"
  /\ arrivals < MaxArrivals
  /\ \A i \in 1..Len(ReqOrder) : i < ReqIndex(r) => reqs[ReqOrder[i]].pc # "none"
  /\ orders[r].status = "absent"
  /\ reqs' = [reqs EXCEPT ![r] =
                [NoReq EXCEPT !.pc = "rateLimit", !.key = key, !.body = body, !.ip = ip]]
  /\ arrivals' = arrivals + 1
  /\ UNCHANGED <<down, workerVars, conns, streamVars, idem, rl, passed, now, backlog>>

\* zremrangebyscore(key, 0, windowStart): entries with score <= windowStart go.
Trim(bucket, windowStart) == [t \in Times |-> IF t <= windowStart THEN 0 ELSE bucket[t]]

\* zcard
Card(bucket) ==
  LET RECURSIVE Sum(_)
      Sum(t) == IF t < 0 THEN 0 ELSE bucket[t] + Sum(t - 1)
  IN Sum(MaxTime)

\* The limit test with > for >=: one request more passes.
RateLimitedAbove(requestCount) == requestCount > RATE_LIMIT

\* requestCount >= config.RATE_LIMIT
RateLimited(requestCount) == requestCount >= RATE_LIMIT

\* retryAfter = ceil(WINDOW_SIZE - (now - windowStart) / 1000), in ticks.
RetryAfter(t, windowStart) == WindowTicks - (t - windowStart)

\* rateLimitMiddleware: one MULTI transaction trims the window, counts it and
\* adds the request; a request that finds the window full is answered 429.
RateLimit(r) ==
  /\ reqs[r].pc = "rateLimit"
  /\ LET ip == reqs[r].ip
         trimmed == Trim(rl[ip], now - WindowTicks)
         requestCount == Card(trimmed)
     IN /\ rl' = [rl EXCEPT ![ip] = [trimmed EXCEPT ![now] = @ + 1]]
        /\ IF RateLimited(requestCount)
           THEN /\ reqs' = [reqs EXCEPT ![r].pc = "done", ![r].code = 429,
                                        ![r].count = requestCount,
                                        ![r].retryAfter = RetryAfter(now, now - WindowTicks)]
                /\ passed' = passed
           ELSE /\ reqs' = [reqs EXCEPT ![r].pc = "backpressure",
                                        ![r].count = requestCount]
                /\ passed' = [passed EXCEPT ![ip][now].counted = @ + 1]
  /\ UNCHANGED <<down, workerVars, conns, streamVars, idem, now, arrivals, backlog>>

\* rateLimitMiddleware, catch block: the transaction throws, the error is
\* logged and the request goes on to the next check; nothing was recorded.
RateLimitFailOpen(r) ==
  /\ reqs[r].pc = "rateLimit"
  /\ budget.store > 0
  /\ budget' = [budget EXCEPT !.store = @ - 1]
  /\ reqs' = [reqs EXCEPT ![r].pc = "backpressure", ![r].failOpen = TRUE]
  /\ passed' = [passed EXCEPT ![reqs[r].ip][now].failOpen = @ + 1]
  /\ UNCHANGED <<down, orders, jobs, wk, bus, hist, conns, streamVars, idem, rl, now, arrivals, backlog>>

\* Time passes.
Tick ==
  /\ now < MaxTime
  /\ now' = now + 1
  /\ UNCHANGED <<down, workerVars, conns, streamVars, reqs, idem, rl, passed, arrivals, backlog>>

\* Queue depths of other orders' jobs around the threshold.
BacklogLevels ==
  {0, QUEUE_DEPTH_THRESHOLD - 1, QUEUE_DEPTH_THRESHOLD, QUEUE_DEPTH_THRESHOLD + 1}

\* Other orders' jobs are added to the queue or taken by workers.
BacklogMoves ==
  /\ \E n \in BacklogLevels \ {backlog} : backlog' = n
  /\ UNCHANGED <<down, workerVars, conns, streamVars, reqs, idem, rl, passed, now, arrivals>>

\* orderQueue.getWaitingCount()
getWaitingCount == Cardinality({o \in OrderIds : jobs[o].state = "waiting"}) + backlog

\* The overload test with >= for >.
isQueueOverloadedAt(threshold) == getWaitingCount >= threshold

\* orderQueue.getWaitingCount() > threshold
isQueueOverloaded(threshold) == getWaitingCount > threshold

\* backpressureMiddleware: 503 with Retry-After when the queue is overloaded.
Backpressure(r) ==
  /\ reqs[r].pc = "backpressure"
  /\ reqs' = [reqs EXCEPT ![r] =
                IF isQueueOverloaded(QUEUE_DEPTH_THRESHOLD)
                THEN [@ EXCEPT !.pc = "done", !.code = 503, !.depth = getWaitingCount]
                ELSE [@ EXCEPT !.pc = "idempotency", !.depth = getWaitingCount]]
  /\ UNCHANGED <<down, workerVars, conns, streamVars, idem, rl, passed, now, arrivals, backlog>>

\* backpressureMiddleware, catch block: the queue call throws, the error is
\* logged and the request goes on to the next check.
BackpressureFailOpen(r) ==
  /\ reqs[r].pc = "backpressure"
  /\ budget.store > 0
  /\ budget' = [budget EXCEPT !.store = @ - 1]
  /\ reqs' = [reqs EXCEPT ![r].pc = "idempotency", ![r].depth = getWaitingCount,
                           ![r].depthUnread = TRUE]
  /\ UNCHANGED <<down, orders, jobs, wk, bus, hist, conns, streamVars, idem, rl, passed, now,
                 arrivals, backlog>>

\* idempotencyMiddleware: redis.get(idempotency:<key>). A stored record with
\* another body hash is a conflict, with the same hash the stored orderId is
\* returned; with no record the key and hash are attached to the request.
IdempotencyCheck(r) ==
  /\ reqs[r].pc = "idempotency"
  /\ LET rq == reqs[r]
     IN reqs' = [reqs EXCEPT ![r] =
          IF rq.key = NoKey THEN [rq EXCEPT !.pc = "validate"]
          ELSE IF idem[rq.key] # NoRecord
               THEN IF idem[rq.key].bodyHash # hashBody(rq.body)
                    THEN [rq EXCEPT !.pc = "done", !.code = 409]
                    ELSE [rq EXCEPT !.pc = "done", !.code = 200,
                                    !.orderId = idem[rq.key].orderId]
               ELSE [rq EXCEPT !.pc = "validate", !.idempotencyKey = rq.key]]
  /\ UNCHANGED <<down, workerVars, conns, streamVars, idem, rl, passed, now, arrivals, backlog>>

\* A failed lookup that still attaches the key to the request.
IdempotencyFailKeepsKey(r) ==
  /\ reqs[r].pc = "idempotency"
  /\ reqs[r].key # NoKey
  /\ budget.store > 0
  /\ budget' = [budget EXCEPT !.store = @ - 1]
  /\ reqs' = [reqs EXCEPT ![r].pc = "validate", ![r].idemUnread = TRUE,
                           ![r].idempotencyKey = reqs[r].key]
  /\ UNCHANGED <<down, orders, jobs, wk, bus, hist, conns, streamVars, idem, rl, passed, now,
                 arrivals, backlog>>

\* idempotencyMiddleware, catch block: redis.get throws, the error is logged
\* and the preHandler returns; the key and the hash were not attached to the
\* request, so executeOrder sees no key.
IdempotencyFailOpen(r) ==
  /\ reqs[r].pc = "idempotency"
  /\ reqs[r].key # NoKey
  /\ budget.store > 0
  /\ budget' = [budget EXCEPT !.store = @ - 1]
  /\ reqs' = [reqs EXCEPT ![r].pc = "validate", ![r].idemUnread = TRUE]
  /\ UNCHANGED <<down, orders, jobs, wk, bus, hist, conns, streamVars, idem, rl, passed, now,
                 arrivals, backlog>>

\* executeOrder without the return after the 400 answer: the handler goes
\* on to create the order.
ValidateNoReturn(r) ==
  /\ reqs[r].pc = "validate"
  /\ reqs' = [reqs EXCEPT ![r] =
                IF validateOrderRequest(@.body)
                THEN [@ EXCEPT !.pc = "createOrder"]
                ELSE [@ EXCEPT !.pc = "createOrder", !.code = 400]]
  /\ UNCHANGED <<down, workerVars, conns, streamVars, idem, rl, passed, now, arrivals, backlog>>

\* executeOrder, run by the route handler after the preHandlers: a body
\* that fails validateOrderRequest is answered 400 invalid_body.
Validate(r) ==
  /\ reqs[r].pc = "validate"
  /\ reqs' = [reqs EXCEPT ![r] =
                IF validateOrderRequest(@.body)
                THEN [@ EXCEPT !.pc = "createOrder"]
                ELSE [@ EXCEPT !.pc = "done", !.code = 400]]
  /\ UNCHANGED <<down, workerVars, conns, streamVars, idem, rl, passed, now, arrivals, backlog>>

\* A creation that stores the idempotency record together with the row.
CreateOrderStoring(r) ==
  /\ reqs[r].pc = "createOrder"
  /\ orders' = [orders EXCEPT ![r] = createOrder(reqs[r].body)]
  /\ idem' = [k \in Keys |-> IF k = reqs[r].idempotencyKey
                             THEN [orderId |-> r, bodyHash |-> hashBody(reqs[r].body)]
                             ELSE idem[k]]
  /\ reqs' = [reqs EXCEPT ![r].pc = "enqueue"]
  /\ UNCHANGED <<down, jobs, wk, bus, hist, budget, conns, streamVars, rl, passed, now, arrivals, backlog>>

\* submitOrder: createOrder rejects (the database is unreachable); no row is
\* written and executeOrder's catch block answers 503.
CreateFail(r) ==
  /\ reqs[r].pc = "createOrder"
  /\ budget.store > 0
  /\ budget' = [budget EXCEPT !.store = @ - 1]
  /\ reqs' = [reqs EXCEPT ![r] = [@ EXCEPT !.pc = "done", !.code = 503]]
  /\ UNCHANGED <<down, orders, jobs, wk, bus, hist, conns, streamVars, idem, rl, passed, now, arrivals, backlog>>

\* executeOrder -> orderService.submitOrder: orderId = uuidv4(), createOrder.
CreateOrder(r) ==
  /\ reqs[r].pc = "createOrder"
  /\ orders' = [orders EXCEPT ![r] = createOrder(reqs[r].body)]
  /\ reqs' = [reqs EXCEPT ![r].pc = "enqueue"]
  /\ UNCHANGED <<down, jobs, wk, bus, hist, budget, conns, streamVars, idem, rl, passed, now, arrivals, backlog>>

\* submitOrder: enqueueOrder adds the job with jobId = orderId.
EnqueueOrder(r) ==
  /\ reqs[r].pc = "enqueue"
  /\ jobs' = [jobs EXCEPT ![r] = QueueAdd(@)]
  /\ reqs' = [reqs EXCEPT ![r] =
                IF @.idempotencyKey # NoKey
                THEN [@ EXCEPT !.pc = "storeIdempotency"]
                ELSE [@ EXCEPT !.pc = "done", !.code = 200, !.orderId = r]]
  /\ UNCHANGED <<down, orders, wk, bus, hist, budget, conns, streamVars, idem, rl, passed, now, arrivals, backlog>>

\* submitOrder: enqueueOrder rejects (the queue's Redis is unreachable) after
\* createOrder wrote the row; executeOrder's catch block answers 503.
EnqueueFail(r) ==
  /\ reqs[r].pc = "enqueue"
  /\ budget.store > 0
  /\ budget' = [budget EXCEPT !.store = @ - 1]
  /\ reqs' = [reqs EXCEPT ![r] = [@ EXCEPT !.pc = "done", !.code = 503]]
  /\ UNCHANGED <<down, orders, jobs, wk, bus, hist, conns, streamVars, idem, rl, passed, now, arrivals, backlog>>

\* storeIdempotencyResult: redis.set(key, {orderId, bodyHash}, 'EX', 300),
\* a plain SET; then the 200 response.
StoreIdempotencyResult(r) ==
  /\ reqs[r].pc = "storeIdempotency"
  /\ idem' = [idem EXCEPT ![reqs[r].idempotencyKey] =
                [orderId |-> r, bodyHash |-> hashBody(reqs[r].body)]]
  /\ reqs' = [reqs EXCEPT ![r].pc = "done", ![r].code = 200, ![r].orderId = r]
  /\ UNCHANGED <<down, workerVars, conns, streamVars, rl, passed, now, arrivals, backlog>>

\* storeIdempotencyResult rejects (Redis is unreachable) after the order was
\* created and enqueued; executeOrder's catch block answers 503.
StoreIdempotencyFail(r) ==
  /\ reqs[r].pc = "storeIdempotency"
  /\ budget.store > 0
  /\ budget' = [budget EXCEPT !.store = @ - 1]
  /\ reqs' = [reqs EXCEPT ![r] = [@ EXCEPT !.pc = "done", !.code = 503]]
  /\ UNCHANGED <<down, orders, jobs, wk, bus, hist, conns, streamVars, idem, rl, passed, now, arrivals, backlog>>

AdmitStep(r) ==
  \/ RateLimit(r)
  \/ Backpressure(r)
  \/ IdempotencyCheck(r)
  \/ Validate(r)
  \/ CreateOrder(r)
  \/ EnqueueOrder(r)
  \/ StoreIdempotencyResult(r)

\* ------------------------------------------------------- specifications

\* Order o1 was admitted: its row is pending and its job is waiting.
InitAdmitted(crash, pub) ==
  /\ orders = [o \in OrderIds |-> IF o = "o1" THEN createOrder(B1) ELSE NoRow]
  /\ jobs = [o \in OrderIds |-> IF o = "o1" THEN [NoJob EXCEPT !.state = "waiting"] ELSE NoJob]
  /\ wk = [o \in OrderIds |-> Idle]
  /\ bus = [o \in OrderIds |-> <<>>]
  /\ hist = [o \in OrderIds |-> NoHist]
  /\ budget = [crash |-> crash, pub |-> pub, store |-> 0]
  /\ conns = [c \in ConnIds |-> NoConn]
  /\ connCount = [o \in OrderIds |-> 0]
  /\ channels = {}
  /\ InitAdmission({0})
  /\ down = Running

WorkerStep(o) ==
  \/ Lease(o)
  \/ Persist(o)
  \/ PublishOk(o)
  \/ GetQuotesOk(o)
  \/ GetQuotesFail(o)
  \/ ExecuteSwapOk(o)
  \/ ExecuteSwapFail(o)
  \/ PersistFailed(o)
  \/ JobCompleted(o)
  \/ JobFailed(o)
  \/ Promote(o)

\* The worker on an admitted order; publishes may fail, the worker does not crash.
Init == InitAdmitted(0, MaxPubFails)
Next == \E o \in OrderIds : WorkerStep(o) \/ PublishFail(o)
Spec == Init /\ [][Next]_vars

\* The worker on an order of any tolerance, with the venues quoting and
\* executing at any of the router's prices; no venue fails.
InitRouter ==
  /\ \E body \in RouterBodies :
       orders = [o \in OrderIds |-> IF o = "o1" THEN createOrder(body) ELSE NoRow]
  /\ jobs = [o \in OrderIds |-> IF o = "o1" THEN [NoJob EXCEPT !.state = "waiting"] ELSE NoJob]
  /\ wk = [o \in OrderIds |-> Idle]
  /\ bus = [o \in OrderIds |-> <<>>]
  /\ hist = [o \in OrderIds |-> NoHist]
  /\ budget = [crash |-> 0, pub |-> 0, store |-> 0]
  /\ conns = [c \in ConnIds |-> NoConn]
  /\ connCount = [o \in OrderIds |-> 0]
  /\ channels = {}
  /\ InitAdmission({0})
  /\ down = Running
NextRouter ==
  \E o \in OrderIds :
    \/ Lease(o)
    \/ Persist(o)
    \/ PublishOk(o)
    \/ GetQuotesAny(o)
    \/ ExecuteSwapAny(o)
    \/ PersistFailed(o)
    \/ JobCompleted(o)
    \/ JobFailed(o)
    \/ Promote(o)
SpecRouter == InitRouter /\ [][NextRouter]_vars

\* The worker may crash while a job is active; BullMQ redelivers the job.
InitCrash == InitAdmitted(MaxCrashes, 0)
NextCrash == \E o \in OrderIds : WorkerStep(o) \/ Crash(o)
SpecCrash == InitCrash /\ [][NextCrash]_vars

\* The worker on an admitted order while enqueueOrder is called again for it.
InitQueue == InitAdmitted(0, 0)
NextQueue == \E o \in OrderIds : WorkerStep(o) \/ EnqueueAgain(o)
SpecQueue == InitQueue /\ [][NextQueue]_vars

\* The process receives a signal while the worker processes an order.
NextShutdown ==
  \/ \E o \in OrderIds : WorkerStep(o)
  \/ Signal
  \/ AppClose
  \/ CloseWorker
  \/ CloseQueue
  \/ DisconnectDatabase
  \/ DisconnectRedis
SpecShutdown == InitQueue /\ [][NextShutdown]_vars

\* The worker on an admitted order while venues fail, one of them or both.
NextVenue == \E o \in OrderIds : WorkerStep(o) \/ GetQuotesPartial(o)
SpecVenue == InitQueue /\ [][NextVenue]_vars

\* One client streams order o1 while the worker processes it.
StreamConns == {"c1"}
InitStream == InitAdmitted(0, 0)
NextStream ==
  \/ \E o \in OrderIds : WorkerStep(o)
  \/ \E c \in StreamConns : Connect(c, "o1") \/ ConnStep(c)
SpecStream == InitStream /\ [][NextStream]_vars
FairStream ==
  /\ SpecStream
  /\ \A o \in OrderIds : WF_vars(WorkerStep(o))

\* Orders o1 and o2 were admitted and a client streams o2: its connection
\* went through handleConnection while o2 was pending. The worker processes
\* both orders (no venue fails) while another client opens the stream of o1
\* and may disconnect, during the setup as well.
TopicOrders == {"o1", "o2"}
LiveConn(o) ==
  [NoConn EXCEPT !.pc = "live", !.order = o, !.open = TRUE, !.handler = TRUE, !.sub = TRUE,
                 !.backfill = [status |-> PENDING, logs |-> createOrder(B1).logs]]
InitTopics ==
  /\ orders = [o \in OrderIds |-> IF o \in TopicOrders THEN createOrder(B1) ELSE NoRow]
  /\ jobs = [o \in OrderIds |->
               IF o \in TopicOrders THEN [NoJob EXCEPT !.state = "waiting"] ELSE NoJob]
  /\ wk = [o \in OrderIds |-> Idle]
  /\ bus = [o \in OrderIds |-> <<>>]
  /\ hist = [o \in OrderIds |-> NoHist]
  /\ budget = [crash |-> 0, pub |-> 0, store |-> 0]
  /\ conns = [c \in ConnIds |-> IF c = "c2" THEN LiveConn("o2") ELSE NoConn]
  /\ connCount = [o \in OrderIds |-> IF o = "o2" THEN 1 ELSE 0]
  /\ channels = {"o2"}
  /\ InitAdmission({0})
  /\ down = Running
NextTopics ==
  \/ \E o \in TopicOrders :
       \/ Lease(o)
       \/ Persist(o)
       \/ PublishOk(o)
       \/ GetQuotesOk(o)
       \/ ExecuteSwapOk(o)
       \/ JobCompleted(o)
  \/ Connect("c1", "o1")
  \/ ConnStep("c1")
  \/ ClientCloseEarly("c1")
SpecTopics == InitTopics /\ [][NextTopics]_vars

\* Two clients stream order o1 and answer the heartbeat's pings or not.
BeatConns == {"c1", "c2"}
NextBeat ==
  \E c \in BeatConns :
    \/ Connect(c, "o1")
    \/ ConnStep(c)
    \/ Ping(c)
    \/ Pong(c)
    \/ PongTimeout(c)
SpecBeat == InitStream /\ [][NextBeat]_vars

\* A client connects to order o1 once its row is confirmed or failed, stays
\* connected and answers every ping.
NextLate ==
  \/ \E o \in OrderIds : WorkerStep(o)
  \/ \E c \in StreamConns :
       \/ orders["o1"].status \in Terminal /\ Connect(c, "o1")
       \/ ConnCheck(c)
       \/ ConnRegister(c)
       \/ ConnBackfill(c)
       \/ ConnSubscribe(c)
       \/ ConnAttach(c)
       \/ Ping(c)
       \/ Pong(c)
SpecLate == InitStream /\ [][NextLate]_vars
FairLate == SpecLate /\ WF_vars(NextLate)

\* Clients connect to order o1 and disconnect at any moment, also while the
\* connection is being set up.
RefConns == {"c1", "c2", "c3"}
NextRefs ==
  \E c \in RefConns :
    \/ Connect(c, "o1")
    \/ ConnStep(c)
    \/ ClientCloseEarly(c)
SpecRefs == InitStream /\ [][NextRefs]_vars

\* Clients of one IP open connections to order o1; the worker is not running.
NextCap == \E c \in ConnIds : Connect(c, "o1") \/ ConnStep(c)
SpecCap == InitStream /\ [][NextCap]_vars

\* No order exists yet; clients submit requests, the worker is not running.
InitEmpty(store, depths) ==
  /\ orders = [o \in OrderIds |-> NoRow]
  /\ jobs = [o \in OrderIds |-> NoJob]
  /\ wk = [o \in OrderIds |-> Idle]
  /\ bus = [o \in OrderIds |-> <<>>]
  /\ hist = [o \in OrderIds |-> NoHist]
  /\ budget = [crash |-> 0, pub |-> 0, store |-> store]
  /\ conns = [c \in ConnIds |-> NoConn]
  /\ connCount = [o \in OrderIds |-> 0]
  /\ channels = {}
  /\ InitAdmission(depths)
  /\ down = Running

InitAdmit == InitEmpty(0, {0})

\* Submissions of one client, with and without an Idempotency-Key.
AdmitReqs == {"o1", "o2", "o3"}
NextAdmit ==
  \E r \in AdmitReqs :
    \/ \E key \in Keys \cup {NoKey}, body \in AnyBody : Submit(r, key, body, "ip1")
    \/ AdmitStep(r)
SpecAdmit == InitAdmit /\ [][NextAdmit]_vars

\* One client submits its requests one after the other: a request is sent
\* when every earlier one was answered.
Quiet == \A r \in OrderIds : reqs[r].pc \in {"none", "done"}
NextReplay ==
  \/ Tick
  \/ \E r \in AdmitReqs :
       \/ Quiet /\ \E key \in Keys \cup {NoKey}, body \in AnyBody : Submit(r, key, body, "ip1")
       \/ AdmitStep(r)
SpecReplay == InitAdmit /\ [][NextReplay]_vars

\* Submissions while the queue's depth moves around the threshold; the
\* queue call of the backpressure check may fail.
InitPressure == InitEmpty(MaxStoreFails, {0})
PressureReqs == {"o1", "o2"}
NextPressure ==
  \/ BacklogMoves
  \/ \E r \in PressureReqs :
       \/ Submit(r, NoKey, B1, "ip1")
       \/ RateLimit(r)
       \/ Backpressure(r)
       \/ BackpressureFailOpen(r)
       \/ IdempotencyCheck(r)
       \/ Validate(r)
       \/ CreateOrder(r)
       \/ EnqueueOrder(r)
SpecPressure == InitPressure /\ [][NextPressure]_vars

\* One client submits a body of any shape, without an Idempotency-Key.
ValidationReqs == {"o1"}
NextValidation ==
  \E r \in ValidationReqs :
    \/ \E body \in ValidationBodies : Submit(r, NoKey, body, "ip1")
    \/ RateLimit(r)
    \/ Backpressure(r)
    \/ IdempotencyCheck(r)
    \/ Validate(r)
    \/ CreateOrder(r)
    \/ EnqueueOrder(r)
SpecValidation == InitAdmit /\ [][NextValidation]_vars

\* One client submits an order and the worker processes what is enqueued;
\* the enqueue may fail once.
InitOrphan == InitEmpty(MaxStoreFails, {0})
NextOrphan ==
  \E r \in ValidationReqs :
    \/ Submit(r, NoKey, B1, "ip1")
    \/ RateLimit(r)
    \/ Backpressure(r)
    \/ IdempotencyCheck(r)
    \/ Validate(r)
    \/ CreateOrder(r)
    \/ EnqueueOrder(r)
    \/ EnqueueFail(r)
    \/ WorkerStep(r)
SpecOrphan == InitOrphan /\ [][NextOrphan]_vars
FairOrphan == SpecOrphan /\ WF_vars(NextOrphan)

\* Two submissions carry the same Idempotency-Key; a call to the database,
\* the queue or the idempotency store may fail once.
InitCommit == InitEmpty(MaxStoreFails, {0})
NextCommit ==
  \E r \in PressureReqs :
    \/ Submit(r, "K1", B1, "ip1")
    \/ AdmitStep(r)
    \/ CreateFail(r)
    \/ EnqueueFail(r)
    \/ StoreIdempotencyFail(r)
SpecCommit == InitCommit /\ [][NextCommit]_vars

\* The submissions of the admission specification, sent while the queue is
\* empty or while it is overloaded: every admission step can reject.
InitReject == InitEmpty(0, {0, QUEUE_DEPTH_THRESHOLD + 1})
SpecReject == InitReject /\ [][NextAdmit]_vars

\* The rate limiter alone: requests of two clients over time; the store may
\* fail a transaction.
InitRate == InitEmpty(MaxStoreFails, {0})
NextRate ==
  \/ Tick
  \/ \E r \in OrderIds :
       \/ \E ip \in Ips : Submit(r, NoKey, B1, ip)
       \/ RateLimit(r)
       \/ RateLimitFailOpen(r)
SpecRate == InitRate /\ [][NextRate]_vars

\* Submissions of one client with one Idempotency-Key while the store may
\* fail the call of any of the three admission checks; the queue is empty or
\* over the threshold.
InitFailOpen == InitEmpty(MaxStoreFails, {0, QUEUE_DEPTH_THRESHOLD + 1})
NextFailOpen ==
  \E r \in AdmitReqs :
    \/ Submit(r, "K1", B1, "ip1")
    \/ AdmitStep(r)
    \/ RateLimitFailOpen(r)
    \/ BackpressureFailOpen(r)
    \/ IdempotencyFailOpen(r)
SpecFailOpen == InitFailOpen /\ [][NextFailOpen]_vars

\* ------------------------------------------------------------ properties

\* Number of log entries of a row written for a stage.
CountStage(logs, stage) == Cardinality({i \in 1..Len(logs) : logs[i].stage = stage})

\* C2 (as claimed): no persisted status of an order is ever followed by a
\* status that comes earlier on the lifecycle path.
C2_MonotoneStatus ==
  [][\A o \in OrderIds :
       orders[o].status # "absent" =>
         StatusRank(orders'[o].status) >= StatusRank(orders[o].status)]_vars

\* C3 (as claimed): also when the worker crashes and the job is delivered
\* again, the transition into confirmed is persisted at most once, and a
\* stage the row already holds is not written again.
C3_ConfirmedOnce ==
  \A o \in OrderIds :
    /\ CountStage(orders[o].logs, CONFIRMED) <= 1
    /\ hist[o].confirms <= 1

\* C4: when the venue failed on every attempt, the job ran exactly
\* MAX_RETRIES times: while a retry is scheduled the row is not failed and
\* fewer than MAX_RETRIES attempts ran; once the job is failed for good,
\* exactly MAX_RETRIES attempts ran, the row is failed with a failureReason,
\* and no attempt is running or scheduled.
C4_BoundedRetries ==
  \A o \in OrderIds :
    (hist[o].runs > 0 /\ hist[o].venueFails = hist[o].runs) =>
      /\ hist[o].runs <= MAX_RETRIES
      /\ jobs[o].state \in {"delayed", "waiting"} =>
           /\ orders[o].status # FAILED
           /\ hist[o].runs < MAX_RETRIES
           /\ jobs[o].attemptsMade = hist[o].runs
      /\ jobs[o].state = "failed" =>
           /\ hist[o].runs = MAX_RETRIES
           /\ jobs[o].attemptsMade = MAX_RETRIES
           /\ orders[o].status = FAILED
           /\ orders[o].failureReason \in {"quote_error", "swap_error"}
           /\ wk[o].pc = "idle"
      /\ jobs[o].state # "completed"

\* C4 witness: the venue failed three times and the order is failed.
C4_Witness ==
  /\ hist["o1"].venueFails = MAX_RETRIES
  /\ hist["o1"].runs = MAX_RETRIES
  /\ jobs["o1"].state = "failed"
  /\ orders["o1"].status = FAILED

\* C10 (as claimed): an attempt whose slippage check failed persists the
\* order as failed with a slippage reason before it ends, and the queue
\* schedules no retry for the job.
C10_SlippageNotRetried ==
  \A o \in OrderIds :
    /\ (wk[o].pc = "rethrow" /\ wk[o].err = "slippage") =>
         (orders[o].status = FAILED /\ orders[o].failureReason = "slippage")
    /\ hist[o].lastErr = "slippage" => jobs[o].state \notin {"delayed", "waiting", "active"}

\* Submissions that carry key k and body b, and those of them that created
\* an order row or a job (the order a request creates has the request's id).
Carrying(k, b) == {r \in OrderIds : reqs[r].pc # "none" /\ reqs[r].key = k /\ reqs[r].body = b}
RowsOf(S) == {r \in S : orders[r].status # "absent"}
JobsOf(S) == {r \in S : jobs[r].state # "none"}

\* C1 (as claimed): the submissions that carry one Idempotency-Key and one
\* body, overlapping or not, create at most one order row and one job, and
\* all their successful responses carry the same orderId.
C1_IdempotentAdmission ==
  \A k \in Keys, b \in Bodies :
    LET S == Carrying(k, b)
        Ok == {r \in S : reqs[r].pc = "done" /\ reqs[r].code = 200}
    IN /\ Cardinality(RowsOf(S)) <= 1
       /\ Cardinality(JobsOf(S)) <= 1
       /\ \A r1, r2 \in Ok : reqs[r1].orderId = reqs[r2].orderId

\* C8 (as claimed): the submissions that share one Idempotency-Key create at
\* most one order row, and once all of them are answered and two of them
\* differ in body fingerprint, one of them was answered 409.
C8_KeyConflictDetection ==
  \A k \in Keys :
    LET S == {r \in OrderIds : reqs[r].pc # "none" /\ reqs[r].key = k}
        Passed == {r \in S : reqs[r].code \notin {429, 503}}
    IN (/\ \A r \in Passed : reqs[r].pc = "done"
        /\ \E r1, r2 \in Passed : hashBody(reqs[r1].body) # hashBody(reqs[r2].body))
       => /\ Cardinality(RowsOf(S)) <= 1
          /\ \E r \in Passed : reqs[r].code = 409

\* Connections that passed the limit check and hold a slot of the counter.
Admitted(o) ==
  {c \in ConnIds : /\ conns[c].order = o
                   /\ conns[c].open
                   /\ conns[c].pc \in {"backfill", "subscribe", "attach", "live"}}

\* C7 (as claimed): never more than MAX_CONNECTIONS_PER_ORDER_IP connections
\* of one (orderId, IP) are admitted at the same time, and the counter of
\* registered connections never exceeds the cap.
C7_SubscriptionCap ==
  \A o \in OrderIds :
    /\ Cardinality(Admitted(o)) <= MAX_CONNECTIONS_PER_ORDER_IP
    /\ connCount[o] <= MAX_CONNECTIONS_PER_ORDER_IP

\* The stages of a sequence of log entries, the statuses of a sequence of
\* status_update messages.
Stages(logs) == [i \in 1..Len(logs) |-> logs[i].stage]
Statuses(msgs) == [i \in 1..Len(msgs) |-> msgs[i].status]

\* a is a subsequence of b: b covers every element of a, in order.
Covers(b, a) ==
  LET RECURSIVE Sub(_, _)
      Sub(i, j) == IF i > Len(a) THEN TRUE
                   ELSE IF j > Len(b) THEN FALSE
                   ELSE IF a[i] = b[j] THEN Sub(i + 1, j + 1)
                   ELSE Sub(i, j + 1)
  IN Sub(1, 1)

\* C5 (as claimed): on a connection that got its backfill and stayed open
\* until the job ended, the backfill logs followed by the status updates
\* received cover every transition persisted in the order row, in order.
C5_BackfillCovers ==
  \A c \in ConnIds :
    (/\ conns[c].pc = "live"
     /\ conns[c].open
     /\ conns[c].backfill # NoBackfill
     /\ jobs[conns[c].order].state \in {"completed", "failed"})
    => Covers(Stages(conns[c].backfill.logs) \o Statuses(conns[c].received),
              Stages(orders[conns[c].order].logs))

\* Requests of an ip the limiter let through at a time in (t - WindowTicks, t]:
\* all of them, and those whose transaction was carried out.
PassedInWindow(ip, t) ==
  LET RECURSIVE Sum(_)
      Sum(s) == IF s < 0 \/ s <= t - WindowTicks THEN 0
                ELSE passed[ip][s].counted + passed[ip][s].failOpen + Sum(s - 1)
  IN Sum(t)
CountedInWindow(ip, t) ==
  LET RECURSIVE Sum(_)
      Sum(s) == IF s < 0 \/ s <= t - WindowTicks THEN 0
                ELSE passed[ip][s].counted + Sum(s - 1)
  IN Sum(t)

AllTerminal == \A o \in OrderIds : orders[o].status # "absent" => orders[o].status \in Terminal

\* C9: while an admitted order is not terminal, the fairly scheduled queue
\* and worker eventually bring every admitted order to a terminal status,
\* and no step of a client's disconnect changes the order row, the job or
\* the worker's run.
C9_EventuallyTerminal ==
  /\ (~AllTerminal) ~> AllTerminal
  /\ [][(\E c \in ConnIds : ClientClose(c) \/ CloseUnsubscribe(c) \/ CloseUnregister(c))
          => UNCHANGED <<down, orders, jobs, wk>>]_vars

\* C9 witness: the client left after the building update, its connection is
\* closed, and the order went on to confirmed.
C9_Witness ==
  /\ conns["c1"].pc = "closed"
  /\ Len(conns["c1"].received) > 0
  /\ conns["c1"].received[Len(conns["c1"].received)].status = BUILDING
  /\ orders["o1"].status = CONFIRMED
  /\ jobs["o1"].state = "completed"

\* C11 (as claimed): a failed publish leaves the persisted order alone: once
\* confirmed is persisted the row stays confirmed, no catch block runs on
\* it, and its job is not scheduled or run again.
C11_PublishFailureKeepsRow ==
  \A o \in OrderIds :
    hist[o].confirms > 0 =>
      /\ orders[o].status = CONFIRMED
      /\ wk[o].pc \in {"pubConfirmed", "return", "idle"}
      /\ jobs[o].state \in {"active", "completed"}
      /\ hist[o].confirms = 1

\* C12 (as claimed): in every state of every order row, txHash is set iff
\* the status is submitted or confirmed, and failureReason is set iff the
\* status is failed.
C12_TxHashAndReason ==
  \A o \in OrderIds :
    orders[o].status # "absent" =>
      /\ orders[o].txHash # Null <=> orders[o].status \in {SUBMITTED, CONFIRMED}
      /\ orders[o].failureReason # Null <=> orders[o].status = FAILED

\* Jobs of an orderId that are waiting, active or scheduled for a retry.
NonTerminalJobs(o) ==
  (IF jobs[o].state \in {"waiting", "active", "delayed"} THEN 1 ELSE 0) + jobs[o].others

\* C13: the queue holds at most one non-terminal job per orderId, and a call
\* of enqueueOrder for an orderId that has a job adds no job.
C13_OneJobPerOrder ==
  \A o \in OrderIds :
    /\ NonTerminalJobs(o) <= 1
    /\ jobs[o].others = 0

\* C13 witness: enqueueOrder was called again while the order's job was
\* active and again while it waited for its retry.
C13_Witness ==
  /\ hist["o1"].enqueues = MaxReEnqueues
  /\ jobs["o1"].state = "delayed"
  /\ hist["o1"].runs > 0
  /\ NonTerminalJobs("o1") = 1

\* Request r1 was answered 200 with an orderId under a key before request r2,
\* which carries the same key, was sent and went through the limiter and the
\* backpressure check.
Replays(r1, r2) ==
  /\ ReqIndex(r1) < ReqIndex(r2)
  /\ reqs[r1].key # NoKey
  /\ reqs[r2].key = reqs[r1].key
  /\ reqs[r1].pc = "done" /\ reqs[r1].code = 200
  /\ reqs[r2].pc = "done" /\ reqs[r2].code \notin {429, 503}

Counted(r) == reqs[r].pc \notin {"none", "rateLimit"} /\ ~reqs[r].failOpen

\* C15 (as claimed): a submission with an invalid body is answered 400
\* before any other step is applied: it has no entry in the rate-limit
\* window and no other answer than 400.
C15_ValidateFirst ==
  \A r \in OrderIds :
    (reqs[r].pc # "none" /\ ~validateOrderRequest(reqs[r].body)) =>
      /\ ~Counted(r)
      /\ reqs[r].pc = "done" => reqs[r].code = 400

\* Request r went through the backpressure step.
PastBackpressure(r) ==
  reqs[r].pc \in {"idempotency", "validate", "createOrder", "enqueue", "storeIdempotency"}
  \/ (reqs[r].pc = "done" /\ reqs[r].code # 429)

Rejections == {429, 503, 409, 400}

\* C17: a submission answered 429, 503, 409 or 400 is finished with that
\* answer: no order row and no job exist for it, and no idempotency record
\* names it.
C17_ShortCircuit ==
  \A r \in OrderIds :
    reqs[r].code \in Rejections =>
      /\ reqs[r].pc = "done"
      /\ orders[r].status = "absent"
      /\ jobs[r].state = "none"
      /\ \A k \in Keys : idem[k].orderId # r

\* C17 witness: the first submission created order o1, the second used its
\* key with another body and got 409, the third was over the rate limit and
\* got 429.
C17_Witness ==
  /\ reqs["o1"].code = 200 /\ orders["o1"].status = PENDING
  /\ reqs["o2"].code = 409
  /\ reqs["o3"].code = 429
  /\ Cardinality({r \in OrderIds : orders[r].status # "absent"}) = 1

\* C18 (as claimed): the heartbeat terminates a connection only after two
\* consecutive pings went unanswered; one missed pong does not end it.
C18_Heartbeat ==
  \A c \in ConnIds :
    /\ conns[c].closeCode = 1006 => conns[c].missed >= 2
    /\ conns[c].missed = 1 => conns[c].open

\* C19 (as claimed): a connection whose backfill showed a confirmed or failed
\* order is closed by the server afterwards; it does not stay open.
C19_TerminalBackfillCloses ==
  \A c \in StreamConns :
    (conns[c].backfill.status \in Terminal) ~> ~conns[c].open

\* C20 (as claimed): a repository update whose status is not reached from the
\* row's current status by an edge of the lifecycle (the next status on the
\* path, or failed from a status that is not terminal) leaves the row as it
\* was; writing the status the row already has is not counted as a transition.
C20_RepositoryRejects ==
  [][\A o \in OrderIds :
       LET from == orders[o].status
           to == orders'[o].status
       IN (/\ from # "absent"
           /\ to # from
           /\ ~(to # FAILED /\ StatusRank(to) = StatusRank(from) + 1)
           /\ ~(to = FAILED /\ from \notin Terminal))
          => orders'[o] = orders[o]]_vars

\* C21 (as claimed): every message published on an order's topic carries the
\* status the order row holds at the moment of the publish.
C21_PublishedIsPersisted ==
  [][\A o \in OrderIds :
       Len(bus'[o]) > Len(bus[o]) =>
         bus'[o][Len(bus'[o])].status = orders[o].status]_vars

\* C22 (as claimed): the venue selected for a pair of quotes is the one with
\* the higher price net of its fee, and Meteora when the net prices are equal.
C22_SelectBest ==
  \A o \in OrderIds :
    wk[o].dex # Null =>
      LET raydiumNet == wk[o].raydium * (1000 - RaydiumFee)
          meteoraNet == wk[o].meteora * (1000 - MeteoraFee)
      IN /\ raydiumNet > meteoraNet => wk[o].dex = RAYDIUM
         /\ meteoraNet > raydiumNet => wk[o].dex = METEORA
         /\ raydiumNet = meteoraNet => wk[o].dex = METEORA

\* C23: after a swap, the slippage check has passed exactly when the executed
\* price deviates from the expected price, above or below, by at most the
\* order's tolerance; a deviation equal to the tolerance passes.
C23_CheckSlippage ==
  \A o \in OrderIds :
    wk[o].executed # 0 =>
      LET expected == ExpectedPrice(wk[o])
          actual == wk[o].executed
          deviation == IF actual >= expected THEN actual - expected
                       ELSE expected - actual
      IN (wk[o].err # "slippage") <=>
           (deviation * 100 <= orders[o].slippage * expected)

\* A swap executed exactly 1% above the expected price of an order whose
\* tolerance is 1% passed the check.
C23_Witness ==
  /\ wk["o1"].pc = "updSubmitted"
  /\ ExpectedPrice(wk["o1"]) = 1000
  /\ wk["o1"].executed = 1010
  /\ orders["o1"].slippage = 1

\* C24 (as claimed): getQuotes does not fail in an attempt in which a venue
\* returned a quote.
C24_PartialQuotes ==
  \A o \in OrderIds :
    (wk[o].raydium # 0 \/ wk[o].meteora # 0) => wk[o].err # "quote_error"

\* C26: when the first two attempts of an order's job failed on venue errors
\* and the third attempt has thrown nothing, the order has not been persisted
\* as failed, and once the job has completed the order is confirmed, on the
\* third run.
C26_TransientVenueFailure ==
  \A o \in OrderIds :
    (hist[o].venueFails = 2 /\ jobs[o].attemptsMade = 2 /\ wk[o].err = Null) =>
      /\ orders[o].status # FAILED
      /\ CountStage(orders[o].logs, FAILED) = 0
      /\ jobs[o].state # "failed"
      /\ jobs[o].state = "completed" =>
           (orders[o].status = CONFIRMED /\ hist[o].runs = 3)

\* Two attempts failed on venue errors and the third completed the job.
C26_Witness ==
  /\ hist["o1"].venueFails = 2
  /\ jobs["o1"].attemptsMade = 2
  /\ hist["o1"].runs = 3
  /\ jobs["o1"].state = "completed"
  /\ orders["o1"].status = CONFIRMED

\* C25 (as claimed): a submission is accepted only if its type is market, its
\* tokens are non-empty, at most 64 characters long and different from each
\* other, its amount is above 0 and its slippage is within [0, 0.5]; every
\* other body is answered 400 and creates no order.
C25_BodyValidation ==
  \A r \in OrderIds :
    reqs[r].pc = "done" =>
      LET body == reqs[r].body
          acceptable ==
            /\ body.type = MARKET
            /\ Len(body.tokenIn) \in 1..MaxTokenLen
            /\ Len(body.tokenOut) \in 1..MaxTokenLen
            /\ body.tokenIn # body.tokenOut
            /\ body.amount > 0
            /\ body.slippage \in 0..MaxSlippagePct
      IN /\ reqs[r].code = 200 => acceptable
         /\ ~acceptable => (reqs[r].code = 400 /\ orders[r].status = "absent")

\* C27 (as claimed): once a record is stored for an idempotency key, no later
\* or concurrent submission changes it: the key's orderId stays the same.
C27_RecordWrittenOnce ==
  [][\A k \in Keys : idem[k] # NoRecord => idem'[k] = idem[k]]_vars

\* C28 (as claimed): no job exists for an order id without an order row, and
\* an order row, also one whose enqueue failed, is eventually processed to a
\* terminal status.
C28_RowThenEnqueue ==
  /\ [](\A o \in OrderIds : jobs[o].state # "none" => orders[o].status # "absent")
  /\ \A o \in OrderIds :
       (orders[o].status = PENDING) ~> (orders[o].status \in Terminal)

\* C29 (as claimed): an open connection that streams an order finds the
\* order's channel subscribed, also after other connections to the order
\* closed; and when no handleConnection or handleClose is under way, a
\* channel is subscribed only if an open connection streams its order.
C29_RefcountedSubscription ==
  /\ \A c \in ConnIds :
       (conns[c].pc = "live" /\ conns[c].open) => conns[c].order \in channels
  /\ (\A c \in ConnIds : conns[c].pc \in {"none", "live", "closed", "rejected"}) =>
       \A o \in channels :
         \E c \in ConnIds : conns[c].pc = "live" /\ conns[c].open /\ conns[c].order = o

\* C30: an open connection that is past its backfill step was sent the
\* backfill; a connection that was written a status_update was sent the
\* backfill before; and the status_updates written to a connection are, in
\* the same order, a run of consecutive messages of the order's topic.
C30_BackfillFirstInOrder ==
  \A c \in ConnIds :
    LET cn == conns[c]
        topic == bus[cn.order]
    IN cn.pc # "none" =>
         /\ (cn.open /\ cn.pc \in {"subscribe", "attach", "live"}) => cn.backfill # NoBackfill
         /\ Len(cn.received) > 0 => cn.backfill # NoBackfill
         /\ \E first \in 0..Len(topic) :
              /\ first + Len(cn.received) <= Len(topic)
              /\ \A j \in 1..Len(cn.received) : cn.received[j] = topic[first + j]

\* A connection was sent the backfill while the order was routing and was
\* then written the building and the submitted update, in this order.
C30_Witness ==
  /\ conns["c1"].backfill.status = ROUTING
  /\ Len(conns["c1"].received) >= 2
  /\ \E j \in 1..(Len(conns["c1"].received) - 1) :
       /\ conns["c1"].received[j].status = BUILDING
       /\ conns["c1"].received[j + 1].status = SUBMITTED

\* C31 (as claimed): a row whose status is routing has neither quotes nor a
\* selected venue, and a row whose status is building, submitted or confirmed
\* has them.
C31_QuotesWithBuilding ==
  \A o \in OrderIds :
    /\ orders[o].status = ROUTING =>
         (orders[o].dexUsed = Null /\ orders[o].raydiumQuote = Null
            /\ orders[o].meteoraQuote = Null)
    /\ orders[o].status \in {BUILDING, SUBMITTED, CONFIRMED} =>
         (orders[o].dexUsed # Null /\ orders[o].raydiumQuote # Null
            /\ orders[o].meteoraQuote # Null)

\* C32: an attempt whose slippage check failed is in its catch block with the
\* slippage error, and every write that moves an order to submitted or
\* confirmed is made by an attempt whose executed price is within the order's
\* tolerance of the expected price.
C32_ConfirmedOnlyWithinSlippage ==
  /\ [](\A o \in OrderIds :
          wk[o].err = "slippage" =>
            wk[o].pc \in {"updFailed", "pubFailed", "pubRetry", "rethrow"})
  /\ [][\A o \in OrderIds :
          (orders'[o] # orders[o] /\ orders'[o].status \in {SUBMITTED, CONFIRMED}) =>
            LET expected == ExpectedPrice(wk[o])
                deviation == IF wk[o].executed >= expected
                             THEN wk[o].executed - expected
                             ELSE expected - wk[o].executed
            IN /\ wk[o].executed # 0
               /\ wk[o].err = Null
               /\ deviation * 100 <= orders[o].slippage * expected]_vars

\* An attempt executed 1.1% above the expected price of an order whose
\* tolerance is 1%: it threw the slippage error and the row is still building.
C32_Witness ==
  /\ wk["o1"].err = "slippage"
  /\ wk["o1"].executed = ExpectedPrice(wk["o1"]) + 11
  /\ orders["o1"].slippage = 1
  /\ orders["o1"].status = BUILDING
  /\ hist["o1"].confirms = 0

\* C33: the logs of an order row are never empty and their last entry has the
\* row's status as its stage; every write to a row appends exactly one entry,
\* whose stage is the status written, and leaves the earlier entries as they
\* were, so the logs list the statuses the row has held in the order entered.
C33_LogsFollowStatus ==
  /\ [](\A o \in OrderIds :
          orders[o].status # "absent" =>
            /\ Len(orders[o].logs) > 0
            /\ orders[o].logs[Len(orders[o].logs)].stage = orders[o].status)
  /\ [][\A o \in OrderIds :
          (orders'[o] # orders[o] /\ orders[o].status # "absent") =>
            /\ Len(orders'[o].logs) = Len(orders[o].logs) + 1
            /\ SubSeq(orders'[o].logs, 1, Len(orders[o].logs)) = orders[o].logs
            /\ orders'[o].logs[Len(orders'[o].logs)].stage = orders'[o].status]_vars

\* A confirmed order whose logs list pending, routing twice, building,
\* submitted and confirmed.
C33_Witness ==
  /\ orders["o1"].status = CONFIRMED
  /\ Len(orders["o1"].logs) = 6
  /\ [i \in 1..6 |-> orders["o1"].logs[i].stage]
       = <<PENDING, ROUTING, ROUTING, BUILDING, SUBMITTED, CONFIRMED>>

\* C34 (as claimed): once the job of an order has failed after a venue error
\* on each of its MAX_RETRIES attempts, the order's status is failed, its
\* failureReason is the error of the last attempt, and its logs hold an entry
\* for each attempt, carrying the attempt's number.
C34_ExhaustedRetries ==
  \A o \in OrderIds :
    (hist[o].venueFails = MAX_RETRIES /\ jobs[o].state = "failed") =>
      /\ orders[o].status = FAILED
      /\ orders[o].failureReason = hist[o].lastErr
      /\ \A a \in 1..MAX_RETRIES :
           \E i \in 1..Len(orders[o].logs) : orders[o].logs[i].attempt = a

\* C35 (as claimed): shutdown closes in the order HTTP server, worker, bus,
\* database: the worker is closed only after the server and with no job
\* active, the bus only after the worker, and the database only after the
\* bus and never while a job is active.
C35_ShutdownOrder ==
  /\ down.worker = "closed" =>
       (down.http = "closed" /\ \A o \in OrderIds : jobs[o].state # "active")
  /\ down.redis = "closed" => down.worker = "closed"
  /\ down.db = "closed" =>
       /\ down.redis = "closed"
       /\ \A o \in OrderIds : jobs[o].state # "active"

C37_CounterMatchesOpen ==
  /\ \A o \in OrderIds : connCount[o] >= 0
  /\ (\A c \in ConnIds : conns[c].pc \in {"none", "live", "closed", "rejected"}) =>
       /\ \A o \in OrderIds :
            connCount[o] = Cardinality({c \in ConnIds :
                             conns[c].order = o /\ conns[c].pc = "live" /\ conns[c].open})
       /\ \A c \in ConnIds :
            (conns[c].pc # "none" /\ ~conns[c].open) =>
              (~conns[c].handler /\ ~conns[c].sub /\ ~conns[c].pongTimeout)

\* C38: a check whose store call throws does not reject. A request whose
\* rate-limit transaction threw is never answered 429, one whose queue call
\* threw is never answered 503, and both go on to the next check; a request
\* whose idempotency lookup threw is never answered 409 or with a stored
\* orderId, goes on to validation, is answered with an order of its own, and
\* no idempotency record is ever stored for it.
C38_FailOpen ==
  /\ [](\A r \in OrderIds :
         LET rq == reqs[r]
         IN /\ rq.failOpen => (rq.pc # "rateLimit" /\ rq.code # 429)
            /\ rq.depthUnread =>
                 (rq.pc \notin {"rateLimit", "backpressure"} /\ rq.code # 503)
            /\ rq.idemUnread =>
                 /\ rq.pc \notin {"rateLimit", "backpressure", "idempotency",
                                   "storeIdempotency"}
                 /\ rq.idempotencyKey = NoKey
                 /\ rq.code \notin {409, 503}
                 /\ rq.pc = "done" => (rq.code = 200 /\ rq.orderId = r)
                 /\ \A k \in Keys : idem[k] # NoRecord => idem[k].orderId # r)
  /\ [][\A r \in OrderIds :
          /\ (~reqs[r].failOpen /\ reqs'[r].failOpen) => reqs'[r].pc = "backpressure"
          /\ (~reqs[r].depthUnread /\ reqs'[r].depthUnread) => reqs'[r].pc = "idempotency"
          /\ (~reqs[r].idemUnread /\ reqs'[r].idemUnread) => reqs'[r].pc = "validate"]_vars

\* A record for K1 and the same body is stored, the lookup of a later request
\* with K1 threw, and that request was answered with a new order of its own.
C38_Witness ==
  \E r \in OrderIds :
    /\ reqs[r].idemUnread
    /\ reqs[r].pc = "done"
    /\ reqs[r].code = 200
    /\ reqs[r].orderId = r
    /\ orders[r].status # "absent"
    /\ idem["K1"] # NoRecord
    /\ idem["K1"].orderId # r
    /\ idem["K1"].bodyHash = hashBody(reqs[r].body)

\* C40: a 429 answer carries a retryAfter of at least one second and at most
\* the window.
C40_RetryAfterPositive ==
  \A r \in OrderIds :
    reqs[r].code = 429 => (reqs[r].retryAfter >= 1 /\ reqs[r].retryAfter <= WindowTicks)
\* C39: every status_update written to a connection was published for the
\* order the connection streams, and nothing is written to a connection that
\* has closed.
C39_TopicIsolation ==
  /\ [](\A c \in ConnIds :
         \A j \in 1..Len(conns[c].received) : conns[c].received[j].orderId = conns[c].order)
  /\ [][\A c \in ConnIds :
          (conns[c].pc # "none" /\ ~conns[c].open) =>
            /\ conns'[c].received = conns[c].received
            /\ conns'[c].backfill = conns[c].backfill]_vars

\* The connection of o1 was written updates of o1 and closed before o1 was
\* confirmed, further messages of o1 were published after that, and the
\* connection of o2 was written every message of o2.
C39_Witness ==
  /\ conns["c1"].pc = "closed"
  /\ ~conns["c1"].open
  /\ Len(conns["c1"].received) > 0
  /\ conns["c1"].received[Len(conns["c1"].received)].status # CONFIRMED
  /\ Len(bus["o1"]) > 0
  /\ bus["o1"][Len(bus["o1"])].status = CONFIRMED
  /\ Len(bus["o2"]) > 0
  /\ conns["c2"].received = bus["o2"]
====
